---- MODULE Spec2Model ----
(***************************************************************************)
(* Discovery mode of arrow-client: argument parsing, path-list loading,    *)
(* the call of the scan engine and the JSON report (src/src/main.rs,       *)
(* src/src/output.rs).                                                     *)
(*                                                                         *)
(* Text is modelled structurally.  A command-line token is a record        *)
(* [opt, val]: opt is its literal head ("-D", "--output-file=", ...) and   *)
(* val the characters (or path components) that follow the head.  A path   *)
(* is the sequence of its components, "/" being the root component.  A     *)
(* file's content is the sequence of its bytes, one string per character.  *)
(***************************************************************************)
EXTENDS Integers, Sequences, FiniteSets, TLC

VARIABLES
    args,                 \* the tokens after --discovery-only
    i,                    \* main.rs:81, index of the next token (0-based)
    discovery_whitelist,  \* main.rs:73
    rtsp_paths_file,      \* main.rs:74
    mjpeg_paths_file,     \* main.rs:75
    output_stdout,        \* main.rs:76
    output_file,          \* main.rs:77, Option
    verbose,              \* main.rs:78
    path_delay_ms,        \* main.rs:79, decimal digits of the u64
    pc,                   \* position in discovery_only_main
    exit_code,            \* Option: the status the process ended with
    rtsp_paths,           \* main.rs:133
    mjpeg_paths,          \* main.rs:134
    load_calls,           \* every load_paths_file call: path, file, result
    scan_calls,           \* every scan_network call: arguments, Ok or Err
    scan_result,          \* main.rs:144
    survey_opt,           \* main.rs:144, Option
    json,                 \* output.rs:135, Option
    bytes,                \* output.rs:136, Option
    stdout,               \* what was written to standard output, in order
    stderr,               \* what was written to standard error, in order
    dirs,                 \* the directories of the file system
    files                 \* the output files of the file system: path -> content

vars == <<args, i, discovery_whitelist, rtsp_paths_file, mjpeg_paths_file,
          output_stdout, output_file, verbose, path_delay_ms, pc, exit_code,
          rtsp_paths, mjpeg_paths, load_calls, scan_calls,
          scan_result, survey_opt, json, bytes, stdout, stderr, dirs, files>>

(***************************************************************************)
(* Bounds of the model.                                                    *)
(***************************************************************************)
MaxArgs == 3
MaxFileLen == 5
MaxServices == 3

(***************************************************************************)
(* Option and Result values.                                               *)
(***************************************************************************)
None == <<>>
Some(x) == <<x>>
IsSome(o) == o # <<>>
Unwrap(o) == o[1]

Ok(v) == [ok |-> TRUE, val |-> v]
Err == [ok |-> FALSE, val |-> <<>>]

\* Option::unwrap_or_default / Result::unwrap_or_default on a Vec
UnwrapOrDefault(r) == IF r.ok THEN r.val ELSE <<>>

(***************************************************************************)
(* Command-line tokens.                                                    *)
(***************************************************************************)
Tok(opt, val) == [opt |-> opt, val |-> val]
Word(w) == Tok(w, <<>>)

\* arg == w  (match arms main.rs:85, 95, 102, 117 and the "json" test at 97)
IsWord(tok, w) == tok.opt = w /\ tok.val = <<>>
\* arg.starts_with(p) for the "name=" prefixes (main.rs:107-113)
StartsWith(tok, p) == tok.opt = p
\* arg[p.len()..]
AfterPrefix(tok) == tok.val

RTSP_PATHS_FILE == <<"/", "etc", "arrow", "rtsp-paths">>
MJPEG_PATHS_FILE == <<"/", "etc", "arrow", "mjpeg-paths">>
DEFAULT_PATH_DELAY == <<"5", "0">>

Digits == {"0", "1", "2", "3", "4", "5", "6", "7", "8", "9"}
DigitVal(c) ==
    CASE c = "0" -> 0 [] c = "1" -> 1 [] c = "2" -> 2 [] c = "3" -> 3
      [] c = "4" -> 4 [] c = "5" -> 5 [] c = "6" -> 6 [] c = "7" -> 7
      [] c = "8" -> 8 [] c = "9" -> 9

\* u64::MAX = 18446744073709551615
U64_MAX == <<"1", "8", "4", "4", "6", "7", "4", "4", "0", "7", "3", "7",
             "0", "9", "5", "5", "1", "6", "1", "5">>

RECURSIVE StripZeros(_)
StripZeros(s) ==
    IF Len(s) > 1 /\ s[1] = "0" THEN StripZeros(Tail(s)) ELSE s

\* a <= b for two digit strings without leading zeros
RECURSIVE DigitsLeq(_, _)
DigitsLeq(a, b) ==
    IF Len(a) # Len(b) THEN Len(a) < Len(b)
    ELSE IF a = <<>> THEN TRUE
    ELSE IF a[1] # b[1] THEN DigitVal(a[1]) < DigitVal(b[1])
    ELSE DigitsLeq(Tail(a), Tail(b))

\* str::parse::<u64>: an optional "+", then one or more decimal digits, and
\* the value must fit 64 bits.  The value is kept as its decimal digits.
ParseU64(s) ==
    IF s = <<>> THEN Err
    ELSE IF s = <<"+">> \/ s = <<"-">> THEN Err
    ELSE LET d == IF s[1] = "+" THEN Tail(s) ELSE s
         IN  IF \E k \in 1..Len(d) : d[k] \notin Digits THEN Err
             ELSE IF ~DigitsLeq(StripZeros(d), U64_MAX) THEN Err
             ELSE Ok(StripZeros(d))

(***************************************************************************)
(* Path-list files and load_paths_file.                                    *)
(***************************************************************************)
NL == "\n"
CR == "\r"
\* a byte that is not valid UTF-8: BufRead::lines fails on the line holding it
BAD == "<FF>"
\* char::is_whitespace, for the characters of the model
White == {" ", CR, NL}

File(openable, content) == [openable |-> openable, bytes |-> content]

\* the length of the chunk read_line takes: up to and including the first NL
RECURSIVE ChunkLen(_)
ChunkLen(buf) ==
    IF buf = <<>> THEN 0
    ELSE IF buf[1] = NL THEN 1
    ELSE 1 + ChunkLen(Tail(buf))

\* the item Lines::next yields for a chunk: the chunk without its "\n" and
\* without the "\r" before that "\n"; an error if it is not UTF-8
LineOf(chunk) ==
    IF \E k \in 1..Len(chunk) : chunk[k] = BAD THEN Err
    ELSE IF chunk[Len(chunk)] # NL THEN Ok(chunk)
    ELSE LET a == SubSeq(chunk, 1, Len(chunk) - 1)
         IN  IF a # <<>> /\ a[Len(a)] = CR
             THEN Ok(SubSeq(a, 1, Len(a) - 1))
             ELSE Ok(a)

\* line.starts_with('#')
StartsWithHash(line) == line # <<>> /\ line[1] = "#"

\* str::trim
RECURSIVE TrimStart(_)
TrimStart(s) ==
    IF s # <<>> /\ s[1] \in White THEN TrimStart(Tail(s)) ELSE s
RECURSIVE TrimEnd(_)
TrimEnd(s) ==
    IF s # <<>> /\ s[Len(s)] \in White
    THEN TrimEnd(SubSeq(s, 1, Len(s) - 1)) ELSE s
Trim(s) == TrimEnd(TrimStart(s))

\* a filter that trims the line before it looks for the "#"
KeepLine_TrimFirst(line) == ~StartsWithHash(Trim(line)) /\ Trim(line) # <<>>

\* main.rs:186
KeepLine(line) == ~StartsWithHash(line) /\ Trim(line) # <<>>

\* main.rs:184-190: the loop over reader.lines()
RECURSIVE ReadLines(_, _)
ReadLines(buf, paths) ==
    IF buf = <<>> THEN Ok(paths)
    ELSE LET n == ChunkLen(buf)
             line == LineOf(SubSeq(buf, 1, n))
             rest == SubSeq(buf, n + 1, Len(buf))
         IN  IF ~line.ok THEN Err
             ELSE IF KeepLine(line.val)
                  THEN ReadLines(rest, Append(paths, line.val))
                  ELSE ReadLines(rest, paths)

\* a load that reports an unopenable file as a file with one empty path
LoadPathsFile_NoOpenCheck(file) ==
    IF ~file.openable THEN Ok(<< <<>> >>) ELSE ReadLines(file.bytes, <<>>)

\* main.rs:179-191
LoadPathsFile(file) ==
    IF ~file.openable THEN Err ELSE ReadLines(file.bytes, <<>>)

(***************************************************************************)
(* Services, the scan result and the JSON document (output.rs).            *)
(***************************************************************************)
\* (i + 1) as u16
U16_MAX == 65535
AsU16(n) == n % (U16_MAX + 1)

DefaultMac == "00:00:00:00:00:00"
DefaultAddress == "0.0.0.0:0"

UnwrapOr(o, d) == IF IsSome(o) THEN Unwrap(o) ELSE d

\* output.rs:101-123
ServiceToJsonElement(id, svc, last_seen, default_mac, default_address) ==
    [id |-> id,
     svc_type |-> svc.svc_type,
     mac |-> UnwrapOr(svc.mac, default_mac),
     address |-> UnwrapOr(svc.address, default_address),
     path |-> UnwrapOr(svc.path, ""),
     static_svc |-> FALSE,
     last_seen |-> last_seen,
     active |-> TRUE]

\* output.rs:67-99
DiscoveryBlockToJson(d) ==
    [paths |-> [rtsp |-> [source |-> d.paths_rtsp_source,
                          entries |-> d.paths_rtsp_entries],
                mjpeg |-> [source |-> d.paths_mjpeg_source,
                           entries |-> d.paths_mjpeg_entries]],
     survey |-> d.survey]

\* output.rs:50-54; enumerate() counts from 0, a sequence from 1
ServicesToJson(result, last_seen) ==
    [k \in 1..Len(result) |->
        ServiceToJsonElement(AsU16((k - 1) + 1), result[k], last_seen,
                             DefaultMac, DefaultAddress)]

\* output.rs:45-65; the document is a function of its keys
ScanResultToJson(result, discovery, last_seen) ==
    LET root == [services |-> ServicesToJson(result, last_seen)]
    IN  IF IsSome(discovery)
        THEN root @@ ("discovery" :> DiscoveryBlockToJson(Unwrap(discovery)))
        ELSE root

(***************************************************************************)
(* json.dump(): the document as a sequence of text tokens.                 *)
(***************************************************************************)
RECURSIVE Str(_)
Str(s) == IF s = <<>> THEN "" ELSE s[1] \o Str(Tail(s))
Quote(s) == "\"" \o s \o "\""
Key(k) == Quote(k) \o ":"

\* the dumps of the items of a list, separated by commas
RECURSIVE JoinComma(_)
JoinComma(parts) ==
    IF parts = <<>> THEN <<>>
    ELSE IF Len(parts) = 1 THEN parts[1]
    ELSE parts[1] \o <<",">> \o JoinComma(Tail(parts))

DumpArray(parts) == <<"[">> \o JoinComma(parts) \o <<"]">>
DumpObject(parts) == <<"{">> \o JoinComma(parts) \o <<"}">>

DumpService(e) ==
    DumpObject(<< <<Key("id"), ToString(e.id)>>,
                  <<Key("svc_type"), ToString(e.svc_type)>>,
                  <<Key("mac"), Quote(e.mac)>>,
                  <<Key("address"), Quote(e.address)>>,
                  <<Key("path"), Quote(e.path)>>,
                  <<Key("static_svc"), ToString(e.static_svc)>>,
                  <<Key("last_seen"), ToString(e.last_seen)>>,
                  <<Key("active"), ToString(e.active)>> >>)

DumpPathsEntry(p) ==
    DumpObject(<< <<Key("source"), Quote(Str(p.source))>>,
                  <<Key("entries")>> \o
                      DumpArray([k \in 1..Len(p.entries) |->
                                    <<Quote(Str(p.entries[k]))>>]) >>)

DumpProbe(pr) ==
    DumpObject(<< <<Key("path"), Quote(pr.path)>>,
                  <<Key("result"), Quote(pr.result)>> >>)

DumpSurvey(sv) ==
    DumpObject([k \in 1..Len(sv) |->
        <<Key(sv[k].addr)>> \o
            DumpArray([j \in 1..Len(sv[k].entries) |->
                          DumpProbe(sv[k].entries[j])])])

DumpDiscovery(d) ==
    DumpObject(<< <<Key("paths")>> \o
                      DumpObject(<< <<Key("rtsp")>> \o DumpPathsEntry(d.paths.rtsp),
                                    <<Key("mjpeg")>> \o DumpPathsEntry(d.paths.mjpeg) >>),
                  <<Key("survey")>> \o DumpSurvey(d.survey) >>)

Dump(doc) ==
    LET services == <<Key("services")>> \o
                    DumpArray([k \in 1..Len(doc.services) |->
                                  DumpService(doc.services[k])])
    IN  IF "discovery" \in DOMAIN doc
        THEN DumpObject(<<services,
                          <<Key("discovery")>> \o DumpDiscovery(doc.discovery)>>)
        ELSE DumpObject(<<services>>)

(***************************************************************************)
(* The file system of the output sink.                                     *)
(***************************************************************************)
\* Path::parent
Parent(path) ==
    IF path = <<>> \/ path = <<"/">> THEN None
    ELSE Some(SubSeq(path, 1, Len(path) - 1))

\* the directories create_dir_all(path) leaves in place when it succeeds
Ancestors(path) == {SubSeq(path, 1, n) : n \in 1..Len(path)}

(***************************************************************************)
(* The inputs: command lines, path files, scan outcomes, clock readings.   *)
(***************************************************************************)
OUT_ABS == <<"/", "d", "out.json">>
OUT_REL == <<"out.json">>
ALT_RTSP == <<"/", "tmp", "r.txt">>
ALT_MJPEG == <<"/", "tmp", "m.txt">>
\* 2^64, one more than u64::MAX
TOO_BIG == <<"1", "8", "4", "4", "6", "7", "4", "4", "0", "7", "3", "7",
             "0", "9", "5", "5", "1", "6", "1", "6">>

DelayValues == {<<"7">>, <<"+", "3">>, <<"x">>, TOO_BIG}
OutputFiles == {OUT_ABS, OUT_REL}

Tokens ==
    {Word("-D"), Word("eth0"), Word("--output"), Word("json"), Word("-v"),
     Word("--verbose"), Word("--help"),
     Tok("--rtsp-paths=", ALT_RTSP), Tok("--mjpeg-paths=", ALT_MJPEG)}
    \cup {Tok("--output-file=", p) : p \in OutputFiles}
    \cup {Tok("--path-delay-ms=", v) : v \in DelayValues}

ArgLists == UNION {[1..n -> Tokens] : n \in 0..MaxArgs}

\* a file that cannot be opened, a readable file, a file whose third line
\* cannot be read
MainFiles ==
    {File(FALSE, <<>>),
     File(TRUE, <<"#", "a", NL, " ", NL, "a", NL, "b", NL>>),
     File(TRUE, <<"a", NL, "b", NL, BAD, NL>>)}

Chars == {"#", " ", "a", NL, CR, BAD}
AllFiles ==
    {File(FALSE, <<>>)}
    \cup {File(TRUE, b) : b \in UNION {[1..n -> Chars] : n \in 0..MaxFileLen}}

SVC_A == [svc_type |-> 1, mac |-> Some("aa:bb:cc:00:11:22"),
          address |-> Some("10.0.0.2:554"), path |-> Some("/live")]
SVC_B == [svc_type |-> 2, mac |-> None, address |-> None, path |-> None]
SVC_C == [svc_type |-> 1, mac |-> None,
          address |-> Some("10.0.0.3:80"), path |-> None]
ServicePool == {SVC_A, SVC_B, SVC_C}

SURVEY_A == <<[addr |-> "10.0.0.2",
               entries |-> <<[path |-> "/live", result |-> "ok"]>>]>>
\* SurveyData::default()
EmptySurvey == <<>>

\* what scan_network may return: an error, or a result with or without a
\* survey (whatever the verbosity asked for)
ScanOutcomes ==
    {[ok |-> FALSE, result |-> <<>>, survey |-> None],
     [ok |-> TRUE, result |-> <<SVC_A, SVC_B>>, survey |-> None],
     [ok |-> TRUE, result |-> <<SVC_A, SVC_B>>, survey |-> Some(SURVEY_A)]}

\* readings of utc_timestamp_sec
Timestamps == {1700000000}
IdTimestamps == {1700000000, 1700000001}

\* scan results for the serializer alone: every short one, and the lengths
\* around the largest u16
ShortResults == UNION {[1..n -> ServicePool] : n \in 0..MaxServices}
LongResults ==
    {[k \in 1..n |-> SVC_B] : n \in {U16_MAX, U16_MAX + 1, U16_MAX + 2}}

USAGE_TEXT == <<"USAGE">>
STALE == <<"stale">>

(***************************************************************************)
(* discovery_only_main, main.rs:60-176.                                    *)
(***************************************************************************)
\* the state before discovery_only_main's first statement, but for the
\* command line
Fresh ==
    /\ i = 0
    /\ discovery_whitelist = <<>>
    /\ rtsp_paths_file = RTSP_PATHS_FILE
    /\ mjpeg_paths_file = MJPEG_PATHS_FILE
    /\ output_stdout = FALSE
    /\ output_file = None
    /\ verbose = FALSE
    /\ path_delay_ms = DEFAULT_PATH_DELAY
    /\ exit_code = None
    /\ rtsp_paths = <<>>
    /\ mjpeg_paths = <<>>
    /\ load_calls = <<>>
    /\ scan_calls = <<>>
    /\ survey_opt = None
    /\ json = None
    /\ bytes = None
    /\ stdout = <<>>
    /\ stderr = <<>>
    /\ dirs = {<<>>, <<"/">>}
    /\ files = (OUT_REL :> STALE)

Init ==
    /\ args \in ArgLists
    /\ pc = "parse"
    /\ scan_result = <<>>
    /\ Fresh

\* std::process::exit(code)
Exit(code) ==
    /\ exit_code' = Some(code)
    /\ pc' = "exit"

\* a usage exit that drops its exit code
DiscoveryOnlyUsage_Status0(code) ==
    /\ stdout' = Append(stdout, USAGE_TEXT)
    /\ Exit(0)

\* main.rs:193-212
DiscoveryOnlyUsage(code) ==
    /\ stdout' = Append(stdout, USAGE_TEXT)
    /\ Exit(code)

\* the arm of the match at main.rs:84-125 that a token takes
ArmOf(arg) ==
    IF IsWord(arg, "-D") THEN "-D"
    ELSE IF IsWord(arg, "--output") THEN "--output"
    ELSE IF IsWord(arg, "-v") \/ IsWord(arg, "--verbose") THEN "verbose"
    ELSE IF StartsWith(arg, "--output-file=") THEN "output-file"
    ELSE IF StartsWith(arg, "--rtsp-paths=") THEN "rtsp-paths"
    ELSE IF StartsWith(arg, "--mjpeg-paths=") THEN "mjpeg-paths"
    ELSE IF StartsWith(arg, "--path-delay-ms=") THEN "path-delay-ms"
    ELSE IF IsWord(arg, "--help") THEN "help"
    ELSE "unknown"

\* main.rs:82-83
InLoop == pc = "parse" /\ i < Len(args)
Arg == args[i + 1]

cfgVars == <<discovery_whitelist, rtsp_paths_file, mjpeg_paths_file,
             output_stdout, output_file, verbose, path_delay_ms>>
runVars == <<rtsp_paths, mjpeg_paths, load_calls, scan_calls, scan_result,
             survey_opt, json, bytes, dirs, files>>

\* main.rs:85-94
ArgD ==
    /\ InLoop /\ ArmOf(Arg) = "-D"
    /\ IF i + 1 < Len(args)
       THEN /\ discovery_whitelist' = Append(discovery_whitelist, args[i + 2])
            /\ i' = i + 2
            /\ UNCHANGED <<pc, exit_code, stdout, stderr>>
       ELSE /\ stderr' = Append(stderr, "ERROR: -D requires interface name")
            /\ DiscoveryOnlyUsage(1)
            /\ i' = i + 1
            /\ UNCHANGED discovery_whitelist
    /\ UNCHANGED <<args, rtsp_paths_file, mjpeg_paths_file, output_stdout,
                   output_file, verbose, path_delay_ms, runVars>>

\* main.rs:95-101
ArgOutput ==
    /\ InLoop /\ ArmOf(Arg) = "--output"
    /\ i' = IF i + 1 < Len(args) /\ IsWord(args[i + 2], "json")
            THEN i + 2 ELSE i + 1
    /\ output_stdout' = TRUE
    /\ UNCHANGED <<args, discovery_whitelist, rtsp_paths_file,
                   mjpeg_paths_file, output_file, verbose, path_delay_ms,
                   pc, exit_code, stdout, stderr, runVars>>

\* main.rs:102-105
ArgVerbose ==
    /\ InLoop /\ ArmOf(Arg) = "verbose"
    /\ verbose' = TRUE
    /\ i' = i + 1
    /\ UNCHANGED <<args, discovery_whitelist, rtsp_paths_file,
                   mjpeg_paths_file, output_stdout, output_file,
                   path_delay_ms, pc, exit_code, stdout, stderr, runVars>>

\* main.rs:107-108, 123
ArgOutputFile ==
    /\ InLoop /\ ArmOf(Arg) = "output-file"
    /\ output_file' = Some(AfterPrefix(Arg))
    /\ i' = i + 1
    /\ UNCHANGED <<args, discovery_whitelist, rtsp_paths_file,
                   mjpeg_paths_file, output_stdout, verbose, path_delay_ms,
                   pc, exit_code, stdout, stderr, runVars>>

\* main.rs:109-110, 123
ArgRtspPaths ==
    /\ InLoop /\ ArmOf(Arg) = "rtsp-paths"
    /\ rtsp_paths_file' = AfterPrefix(Arg)
    /\ i' = i + 1
    /\ UNCHANGED <<args, discovery_whitelist, mjpeg_paths_file,
                   output_stdout, output_file, verbose, path_delay_ms,
                   pc, exit_code, stdout, stderr, runVars>>

\* main.rs:111-112, 123
ArgMjpegPaths ==
    /\ InLoop /\ ArmOf(Arg) = "mjpeg-paths"
    /\ mjpeg_paths_file' = AfterPrefix(Arg)
    /\ i' = i + 1
    /\ UNCHANGED <<args, discovery_whitelist, rtsp_paths_file,
                   output_stdout, output_file, verbose, path_delay_ms,
                   pc, exit_code, stdout, stderr, runVars>>

\* a value that does not parse puts the default back
DelayAfter_Reset(old, arg) ==
    LET n == ParseU64(AfterPrefix(arg))
    IN  IF n.ok THEN n.val ELSE DEFAULT_PATH_DELAY

\* main.rs:114-116: the delay a --path-delay-ms= token leaves
DelayAfter(old, arg) ==
    LET n == ParseU64(AfterPrefix(arg))
    IN  IF n.ok THEN n.val ELSE old

\* main.rs:113-116, 123
ArgPathDelay ==
    /\ InLoop /\ ArmOf(Arg) = "path-delay-ms"
    /\ path_delay_ms' = DelayAfter(path_delay_ms, Arg)
    /\ i' = i + 1
    /\ UNCHANGED <<args, discovery_whitelist, rtsp_paths_file,
                   mjpeg_paths_file, output_stdout, output_file, verbose,
                   pc, exit_code, stdout, stderr, runVars>>

\* main.rs:117-118
ArgHelp ==
    /\ InLoop /\ ArmOf(Arg) = "help"
    /\ DiscoveryOnlyUsage(0)
    /\ UNCHANGED <<args, i, cfgVars, stderr, runVars>>

\* main.rs:119-122
ArgUnknown ==
    /\ InLoop /\ ArmOf(Arg) = "unknown"
    /\ stderr' = Append(stderr, "ERROR: unknown argument")
    /\ DiscoveryOnlyUsage(1)
    /\ UNCHANGED <<args, i, cfgVars, runVars>>

\* a default that turns standard output on whatever was asked
DefaultStdout_Always(to_stdout, file) == TRUE

\* main.rs:128-130: the sink flags after the post-parse default
DefaultStdout(to_stdout, file) ==
    IF ~to_stdout /\ file = None THEN TRUE ELSE to_stdout

\* main.rs:82 (the loop ends), 128-132
ParseDone ==
    /\ pc = "parse" /\ ~(i < Len(args))
    /\ output_stdout' = DefaultStdout(output_stdout, output_file)
    /\ pc' = "load_rtsp"
    /\ UNCHANGED <<args, i, discovery_whitelist, rtsp_paths_file,
                   mjpeg_paths_file, output_file, verbose, path_delay_ms,
                   exit_code, stdout, stderr, runVars>>

\* main.rs:133-134: what the caller makes of load_paths_file's result
PathsOrDefault(r) == UnwrapOrDefault(r)

LoadCall(path, file) ==
    [path |-> path, file |-> file, result |-> LoadPathsFile(file)]

\* main.rs:133
LoadRtsp ==
    /\ pc = "load_rtsp"
    /\ \E file \in MainFiles :
         /\ rtsp_paths' = PathsOrDefault(LoadPathsFile(file))
         /\ load_calls' = Append(load_calls, LoadCall(rtsp_paths_file, file))
    /\ pc' = "load_mjpeg"
    /\ UNCHANGED <<args, i, cfgVars, exit_code, mjpeg_paths, scan_calls,
                   scan_result, survey_opt, json, bytes, stdout, stderr,
                   dirs, files>>

\* main.rs:134
LoadMjpeg ==
    /\ pc = "load_mjpeg"
    /\ \E file \in MainFiles :
         /\ mjpeg_paths' = PathsOrDefault(LoadPathsFile(file))
         /\ load_calls' = Append(load_calls, LoadCall(mjpeg_paths_file, file))
    /\ pc' = "scan"
    /\ UNCHANGED <<args, i, cfgVars, exit_code, rtsp_paths, scan_calls,
                   scan_result, survey_opt, json, bytes, stdout, stderr,
                   dirs, files>>

\* main.rs:136-141: the Vec collected into a HashSet
Whitelist(v) == {v[k] : k \in 1..Len(v)}

\* main.rs:143-151: the arguments scan_network is called with
ScanArgs ==
    [whitelist |-> Whitelist(discovery_whitelist),
     rtsp_paths |-> rtsp_paths,
     mjpeg_paths |-> mjpeg_paths,
     verbose |-> verbose,
     path_delay |-> path_delay_ms]

\* a scan error that is treated like a result
AfterScan_Ignored(outcome) == "serialize"

\* main.rs:152-156: the step a scan outcome leads to
AfterScan(outcome) == IF outcome.ok THEN "serialize" ELSE "scan_failed"

\* main.rs:143-157
Scan ==
    /\ pc = "scan"
    /\ \E outcome \in ScanOutcomes :
         /\ scan_calls' = Append(scan_calls,
                                 [args |-> ScanArgs, ok |-> outcome.ok])
         /\ IF AfterScan(outcome) = "serialize"
            THEN /\ scan_result' = outcome.result
                 /\ survey_opt' = outcome.survey
                 /\ pc' = "serialize"
                 /\ UNCHANGED <<exit_code, stderr>>
            ELSE /\ stderr' = Append(stderr, "ERROR: discovery failed")
                 /\ Exit(2)
                 /\ UNCHANGED <<scan_result, survey_opt>>
    /\ UNCHANGED <<args, i, cfgVars, rtsp_paths, mjpeg_paths, load_calls,
                   json, bytes, stdout, dirs, files>>

\* metadata built when a survey came back, not when verbosity was asked
DiscoveryMeta_WhenSurvey(verb, survey) ==
    IF IsSome(survey)
    THEN Some([paths_rtsp_source |-> rtsp_paths_file,
               paths_rtsp_entries |-> rtsp_paths,
               paths_mjpeg_source |-> mjpeg_paths_file,
               paths_mjpeg_entries |-> mjpeg_paths,
               survey |-> Unwrap(survey)])
    ELSE None

\* main.rs:159-169
DiscoveryMeta(verb, survey) ==
    IF verb
    THEN Some([paths_rtsp_source |-> rtsp_paths_file,
               paths_rtsp_entries |-> rtsp_paths,
               paths_mjpeg_source |-> mjpeg_paths_file,
               paths_mjpeg_entries |-> mjpeg_paths,
               survey |-> UnwrapOr(survey, EmptySurvey)])
    ELSE None

\* a file sink that does not create the directories
FileStep_NoDirs(out_path) ==
    IF IsSome(out_path) THEN "write_file" ELSE "return"

\* output.rs:142-143: the step after the stdout sink
FileStep(out_path) ==
    IF IsSome(out_path)
    THEN IF IsSome(Parent(Unwrap(out_path))) THEN "create_dirs"
         ELSE "write_file"
    ELSE "return"

\* output.rs:138: the step after the document is dumped
FirstSink(to_stdout, out_path) ==
    IF to_stdout THEN "write_stdout" ELSE FileStep(out_path)

\* write_discovery_output returns Ok and discovery_only_main returns
Goto(step) ==
    IF step = "return" THEN Exit(0)
    ELSE pc' = step /\ UNCHANGED exit_code

\* main.rs:172-175: write_discovery_output returned an error
WriteFailed ==
    /\ stderr' = Append(stderr, "ERROR: failed to write output")
    /\ Exit(3)

\* main.rs:159-172, output.rs:135-136
Serialize ==
    /\ pc = "serialize"
    /\ \E last_seen \in Timestamps :
         LET doc == ScanResultToJson(scan_result,
                                     DiscoveryMeta(verbose, survey_opt),
                                     last_seen)
         IN  /\ json' = Some(doc)
             /\ bytes' = Some(Dump(doc))
    /\ Goto(FirstSink(output_stdout, output_file))
    /\ UNCHANGED <<args, i, cfgVars, rtsp_paths, mjpeg_paths, load_calls,
                   scan_calls, scan_result, survey_opt, stdout, stderr,
                   dirs, files>>

\* output.rs:138-140
WriteStdout ==
    /\ pc = "write_stdout"
    /\ \E ok \in BOOLEAN :
         IF ok
         THEN /\ stdout' = Append(stdout, Unwrap(bytes))
              /\ Goto(FileStep(output_file))
              /\ UNCHANGED stderr
         ELSE /\ WriteFailed
              /\ UNCHANGED stdout
    /\ UNCHANGED <<args, i, cfgVars, rtsp_paths, mjpeg_paths, load_calls,
                   scan_calls, scan_result, survey_opt, json, bytes,
                   dirs, files>>

\* output.rs:143-145; create_dir_all("") succeeds and creates nothing
CreateDirs ==
    /\ pc = "create_dirs"
    /\ LET parent == Unwrap(Parent(Unwrap(output_file)))
       IN  \E ok \in BOOLEAN :
             IF ok \/ parent = <<>>
             THEN /\ dirs' = dirs \cup Ancestors(parent)
                  /\ pc' = "write_file"
                  /\ UNCHANGED <<exit_code, stderr>>
             ELSE /\ WriteFailed
                  /\ UNCHANGED dirs
    /\ UNCHANGED <<args, i, cfgVars, rtsp_paths, mjpeg_paths, load_calls,
                   scan_calls, scan_result, survey_opt, json, bytes,
                   stdout, files>>

\* the outcomes of fs::write(path, ..): the file is replaced, or it cannot
\* be created, or it is created (emptied) and the write of the bytes fails
WriteOutcomes(path) ==
    IF path = <<>> \/ SubSeq(path, 1, Len(path) - 1) \notin dirs
    THEN {"fail_create"}
    ELSE {"ok", "fail_create", "fail_write"}

\* output.rs:146-149
WriteFile ==
    /\ pc = "write_file"
    /\ LET path == Unwrap(output_file)
       IN  \E outcome \in WriteOutcomes(path) :
             IF outcome = "ok"
             THEN /\ files' = (path :> Unwrap(bytes)) @@ files
                  /\ Exit(0)
                  /\ UNCHANGED stderr
             ELSE /\ files' = IF outcome = "fail_write"
                              THEN (path :> <<>>) @@ files
                              ELSE files
                  /\ WriteFailed
    /\ UNCHANGED <<args, i, cfgVars, rtsp_paths, mjpeg_paths, load_calls,
                   scan_calls, scan_result, survey_opt, json, bytes,
                   stdout, dirs>>

Next ==
    \/ ArgD
    \/ ArgOutput
    \/ ArgVerbose
    \/ ArgOutputFile
    \/ ArgRtspPaths
    \/ ArgMjpegPaths
    \/ ArgPathDelay
    \/ ArgHelp
    \/ ArgUnknown
    \/ ParseDone
    \/ LoadRtsp
    \/ LoadMjpeg
    \/ Scan
    \/ Serialize
    \/ WriteStdout
    \/ CreateDirs
    \/ WriteFile

Spec == Init /\ [][Next]_vars

(***************************************************************************)
(* load_paths_file alone, on every file of up to MaxFileLen bytes.         *)
(***************************************************************************)
InitLoad ==
    /\ args = <<>>
    /\ pc = "load_file"
    /\ scan_result = <<>>
    /\ Fresh

\* main.rs:179-191, called as at main.rs:133
LoadFile ==
    /\ pc = "load_file"
    /\ \E file \in AllFiles :
         /\ rtsp_paths' = PathsOrDefault(LoadPathsFile(file))
         /\ load_calls' = Append(load_calls, LoadCall(rtsp_paths_file, file))
    /\ pc' = "loaded"
    /\ UNCHANGED <<args, i, cfgVars, exit_code, mjpeg_paths, scan_calls,
                   scan_result, survey_opt, json, bytes, stdout, stderr,
                   dirs, files>>

SpecLoad == InitLoad /\ [][LoadFile]_vars

(***************************************************************************)
(* scan_result_to_json alone, on short and on long scan results.           *)
(***************************************************************************)
InitIds ==
    /\ args = <<>>
    /\ pc = "to_json"
    /\ Fresh
    /\ scan_result \in ShortResults \cup LongResults

\* output.rs:45-65, called as at output.rs:135
ToJson ==
    /\ pc = "to_json"
    /\ \E last_seen \in IdTimestamps :
         json' = Some(ScanResultToJson(scan_result, None, last_seen))
    /\ pc' = "json_built"
    /\ UNCHANGED <<args, i, cfgVars, exit_code, rtsp_paths, mjpeg_paths,
                   load_calls, scan_calls, scan_result, survey_opt, bytes,
                   stdout, stderr, dirs, files>>

SpecIds == InitIds /\ [][ToJson]_vars

(***************************************************************************)
(* What the properties below speak of.                                     *)
(***************************************************************************)
Range(f) == {f[k] : k \in DOMAIN f}

\* the file system before the run
InitialDirs == {<<>>, <<"/">>}
InitialFiles == (OUT_REL :> STALE)

\* the JSON texts that reached standard output, and those that reached a file
JsonOnStdout == {c \in Range(stdout) : c # USAGE_TEXT}
JsonInFiles ==
    {files[p] : p \in {q \in DOMAIN files : files[q] \notin {STALE, <<>>}}}

\* no JSON was written to any sink and the output file system was not touched
NothingWritten ==
    /\ JsonOnStdout = {}
    /\ files = InitialFiles
    /\ dirs = InitialDirs

UsagePrinted == USAGE_TEXT \in Range(stdout)

\* the k-th load_paths_file call fed the rtsp list (1) or the mjpeg list (2)
ListOf(k) == IF k = 1 THEN rtsp_paths ELSE mjpeg_paths
ScanListOf(call, k) ==
    IF k = 1 THEN call.args.rtsp_paths ELSE call.args.mjpeg_paths

\* C1: whenever scan_network returned an error, the process has ended with
\* exit status 2, nothing was serialized and no JSON reached standard output
\* or a file, and no directory was created, whatever the sinks.
C1_ScanErrorExits2 ==
    \A k \in 1..Len(scan_calls) :
        ~scan_calls[k].ok =>
            /\ pc = "exit"
            /\ exit_code = Some(2)
            /\ json = None
            /\ bytes = None
            /\ NothingWritten

C1_Witness ==
    /\ Len(scan_calls) = 1
    /\ ~scan_calls[1].ok
    /\ output_stdout
    /\ IsSome(output_file)
    /\ exit_code = Some(2)

\* C2: when a path file opened but reading one of its lines failed, the run
\* does not go on as if the list were empty: it does not call the scan with
\* an empty list for that file and end with exit status 0.
C2_ReadErrorSurfaced ==
    \A k \in 1..Len(load_calls) :
        (load_calls[k].file.openable /\ ~load_calls[k].result.ok) =>
            ~ /\ \E c \in 1..Len(scan_calls) :
                     ScanListOf(scan_calls[c], k) = <<>>
              /\ exit_code = Some(0)

\* C3: when a path file cannot be opened the run goes on: the list of that
\* file is empty, also in the scan call; the other list is the content of
\* its own file; and the process ends only after the scan was called.
C3_OpenFailureGivesEmptyList ==
    \A k \in 1..Len(load_calls) :
        ~load_calls[k].file.openable =>
            /\ ListOf(k) = <<>>
            /\ \A c \in 1..Len(scan_calls) :
                   ScanListOf(scan_calls[c], k) = <<>>
            /\ \A j \in (1..Len(load_calls)) \ {k} :
                   load_calls[j].result.ok =>
                       /\ ListOf(j) = load_calls[j].result.val
                       /\ \A c \in 1..Len(scan_calls) :
                              ScanListOf(scan_calls[c], j)
                                  = load_calls[j].result.val
            /\ (Len(load_calls) = 1 => pc = "load_mjpeg")
            /\ (pc = "exit" => Len(scan_calls) = 1)

C3_Witness ==
    /\ Len(load_calls) = 2
    /\ ~load_calls[1].file.openable
    /\ load_calls[2].result.ok
    /\ mjpeg_paths # <<>>
    /\ Len(scan_calls) = 1
    /\ json # None
    /\ exit_code = Some(0)

\* the lines of a file, read off the positions of its "\n": a line starts at
\* the first byte and after every "\n", it ends before the next "\n" (or at
\* the end of the file), and "\r\n" ends a line as "\n" does
LineStarts(b) == {st \in 1..Len(b) : st = 1 \/ b[st - 1] = NL}
LineStop(b, st) ==
    IF \E k \in st..Len(b) : b[k] = NL
    THEN CHOOSE k \in st..Len(b) :
             b[k] = NL /\ \A j \in st..(k - 1) : b[j] # NL
    ELSE Len(b) + 1
LineAt(b, st) ==
    LET k == LineStop(b, st)
        crlf == k <= Len(b) /\ k - 1 >= st /\ b[k - 1] = CR
    IN  SubSeq(b, st, IF crlf THEN k - 2 ELSE k - 1)
NthStart(b, n) ==
    CHOOSE st \in LineStarts(b) :
        Cardinality({t \in LineStarts(b) : t < st}) = n - 1
FileLines(b) ==
    [n \in 1..Cardinality(LineStarts(b)) |-> LineAt(b, NthStart(b, n))]

IsComment(line) == line # <<>> /\ line[1] = "#"
IsBlank(line) == \A k \in 1..Len(line) : line[k] \in White
IsEntry(line) == ~IsComment(line) /\ ~IsBlank(line)

\* C4: for every file that load_paths_file reads to its end, the list it
\* returns is the file's lines, in order and as they are, without the lines
\* that start with "#" and the lines that are empty or all whitespace; so no
\* entry is empty, all whitespace or starts with "#".
C4_LoadedListIsFilteredLines ==
    \A k \in 1..Len(load_calls) :
        LET c == load_calls[k]
        IN  c.result.ok =>
                /\ c.result.val = SelectSeq(FileLines(c.file.bytes), IsEntry)
                /\ ListOf(k) = c.result.val
                /\ \A e \in Range(c.result.val) :
                       e # <<>> /\ ~IsBlank(e) /\ e[1] # "#"

C4_Witness ==
    /\ Len(load_calls) = 1
    /\ load_calls[1].result.ok
    /\ \E l \in Range(FileLines(load_calls[1].file.bytes)) : IsComment(l)
    /\ \E l \in Range(FileLines(load_calls[1].file.bytes)) : IsBlank(l)
    /\ load_calls[1].result.val # <<>>
    /\ rtsp_paths = load_calls[1].result.val

\* C5: the "services" array has as many elements as the scan result has
\* services, and its k-th element (counting from 1) has id k, for every
\* length of the scan result.
C5_IdsAreOneToN ==
    IsSome(json) =>
        LET services == Unwrap(json).services
        IN  /\ Len(services) = Len(scan_result)
            /\ \A k \in 1..Len(services) : services[k].id = k

(***************************************************************************)
(* The command line as its reader sees it: which tokens stand where an     *)
(* option is expected, and what they ask for.                              *)
(***************************************************************************)
\* the token at j takes the token after it as its value
TakesNext(a, j) ==
    /\ j < Len(a)
    /\ \/ a[j] = Word("-D")
       \/ a[j] = Word("--output") /\ a[j + 1] = Word("json")

\* the token at k stands where an option is expected (it is not the value of
\* the option before it)
RECURSIVE IsOption(_, _)
IsOption(a, k) ==
    \/ k = 1
    \/ k > 1 /\ (IsOption(a, k - 1) => ~TakesNext(a, k - 1))

OptionPositions(a) == {k \in 1..Len(a) : IsOption(a, k)}

Recognized(tok) ==
    \/ tok \in {Word("-D"), Word("--output"), Word("-v"), Word("--verbose"),
                Word("--help")}
    \/ tok.opt \in {"--output-file=", "--rtsp-paths=", "--mjpeg-paths=",
                    "--path-delay-ms="}

\* the tokens that end the run with the usage text
StopPositions(a) ==
    {k \in OptionPositions(a) :
        \/ ~Recognized(a[k])
        \/ a[k] = Word("--help")
        \/ a[k] = Word("-D") /\ k = Len(a)}
HasStop(a) == StopPositions(a) # {}
SetMin(S) == CHOOSE x \in S : \A y \in S : x <= y
SetMax(S) == CHOOSE x \in S : \A y \in S : y <= x
FirstStop(a) == SetMin(StopPositions(a))
StopStatus(a) == IF a[FirstStop(a)] = Word("--help") THEN 0 ELSE 1

VerboseRequested ==
    \E k \in OptionPositions(args) : args[k] \in {Word("-v"), Word("--verbose")}
OutputRequested ==
    \E k \in OptionPositions(args) : args[k] = Word("--output")
OutputFilePositions ==
    {k \in OptionPositions(args) : args[k].opt = "--output-file="}

\* argument parsing is over and did not end with the usage text
Parsed == pc # "parse" /\ ~UsagePrinted

\* C6: every JSON text the run produced (dumped, on standard output, in a
\* file) has the "discovery" key if and only if -v or --verbose was given,
\* whether or not the scan returned a survey; with no survey the block holds
\* an empty one.
C6_DiscoveryKeyIffVerbose ==
    IsSome(bytes) =>
        /\ ("discovery" \in DOMAIN Unwrap(json)) <=> VerboseRequested
        /\ \A text \in {Unwrap(bytes)} \cup JsonOnStdout \cup JsonInFiles :
               (Key("discovery") \in Range(text)) <=> VerboseRequested
        /\ (VerboseRequested /\ survey_opt = None) =>
               Unwrap(json).discovery.survey = EmptySurvey

C6_Witness ==
    /\ VerboseRequested
    /\ survey_opt = None
    /\ Len(scan_calls) = 1 /\ scan_calls[1].ok
    /\ JsonOnStdout # {}
    /\ \A text \in JsonOnStdout : Key("discovery") \in Range(text)
    /\ exit_code = Some(0)

\* C7: once parsing is over without a usage exit a sink is configured; the
\* stdout sink is on exactly when --output was given or no --output-file=
\* was, the file sink exactly when --output-file= was, with the path of its
\* last occurrence; JSON reaches only the configured sinks, and a run that
\* ends with status 0 has written it to each of them.
C7_SinkSelection ==
    Parsed =>
        /\ output_stdout \/ IsSome(output_file)
        /\ output_stdout <=> (OutputRequested \/ OutputFilePositions = {})
        /\ IsSome(output_file) <=> OutputFilePositions # {}
        /\ OutputFilePositions # {} =>
               Unwrap(output_file) = args[SetMax(OutputFilePositions)].val
        /\ ~output_stdout => stdout = <<>>
        /\ ~IsSome(output_file) => files = InitialFiles /\ dirs = InitialDirs
        /\ exit_code = Some(0) =>
               /\ output_stdout => stdout = <<Unwrap(bytes)>>
               /\ IsSome(output_file) =>
                      files = (Unwrap(output_file) :> Unwrap(bytes))
                                  @@ InitialFiles

C7_Witness ==
    /\ Cardinality(OutputFilePositions) = 2
    /\ \E k \in OutputFilePositions :
           args[k].val # args[SetMax(OutputFilePositions)].val
    /\ ~OutputRequested
    /\ Parsed
    /\ exit_code = Some(0)
    /\ stdout = <<>>
    /\ Unwrap(output_file) \in DOMAIN files
    /\ files[Unwrap(output_file)] = Unwrap(bytes)

\* the directory the output file lies in
DirOf(path) == SubSeq(path, 1, Len(path) - 1)

\* C8: with both sinks configured, one dump is written to both: the file is
\* written after standard output and after its directory exists, a run that
\* ends with status 0 has the same bytes on standard output and as the whole
\* content of the file, and a run in which a write or the creation of the
\* directory failed ends with status 3.
C8_BothSinks ==
    (Parsed /\ output_stdout /\ IsSome(output_file)) =>
        LET path == Unwrap(output_file)
            both == /\ stdout = <<Unwrap(bytes)>>
                    /\ path \in DOMAIN files
                    /\ files[path] = Unwrap(bytes)
        IN  /\ pc \in {"create_dirs", "write_file"} =>
                   stdout = <<Unwrap(bytes)>>
            /\ pc = "write_file" => DirOf(path) \in dirs
            /\ files # InitialFiles =>
                   /\ stdout = <<Unwrap(bytes)>>
                   /\ DirOf(path) \in dirs
                   /\ files \in {(path :> Unwrap(bytes)) @@ InitialFiles,
                                 (path :> <<>>) @@ InitialFiles}
            /\ (pc = "exit" /\ IsSome(bytes)) =>
                   /\ exit_code \in {Some(0), Some(3)}
                   /\ exit_code = Some(0) <=> both

C8_Witness ==
    /\ Parsed
    /\ output_stdout
    /\ output_file = Some(OUT_ABS)
    /\ exit_code = Some(0)
    /\ stdout = <<Unwrap(bytes)>>
    /\ OUT_ABS \in DOMAIN files
    /\ files[OUT_ABS] = Unwrap(bytes)
    /\ <<"/", "d">> \in dirs

\* C9: a command line with a token that is not a recognized option, a -D
\* without a value, or --help ends at the first of them, with status 0 for
\* --help and 1 otherwise, after the usage text; no path file is loaded, the
\* scan is not called and no JSON is written.  No other run prints the usage
\* text or ends with status 1.
C9_UsageExit ==
    /\ HasStop(args) =>
           /\ pc \in {"parse", "exit"}
           /\ pc = "parse" => i < FirstStop(args)
           /\ pc = "exit" =>
                  /\ exit_code = Some(StopStatus(args))
                  /\ stdout = <<USAGE_TEXT>>
           /\ load_calls = <<>>
           /\ scan_calls = <<>>
           /\ json = None /\ bytes = None
           /\ NothingWritten
    /\ ~HasStop(args) => ~UsagePrinted /\ exit_code # Some(1)

C9_Witness ==
    /\ HasStop(args)
    /\ FirstStop(args) = 3
    /\ args[3] = Word("-D")
    /\ pc = "exit"
    /\ exit_code = Some(1)

\* the number a --path-delay-ms= value of the model stands for, if any
DelayMeaning(v) ==
    CASE v = <<"7">> -> Some(<<"7">>)
      [] v = <<"+", "3">> -> Some(<<"3">>)
      [] OTHER -> None
DelayPositions(a, n) ==
    {k \in OptionPositions(a) : k <= n /\ a[k].opt = "--path-delay-ms="}
ValidDelayPositions(a, n) ==
    {k \in DelayPositions(a, n) : IsSome(DelayMeaning(a[k].val))}
ExpectedDelay(a, n) ==
    IF ValidDelayPositions(a, n) = {} THEN <<"5", "0">>
    ELSE Unwrap(DelayMeaning(a[SetMax(ValidDelayPositions(a, n))].val))

\* C10: a --path-delay-ms= token whose value is not a number that fits
\* changes nothing and ends nothing: after any number of tokens the delay is
\* that of the last valid --path-delay-ms= among them, 50 if there is none;
\* the usage text is printed only for the tokens of C9; and the scan is
\* called with the delay of the last valid token of the whole command line.
C10_InvalidDelayIgnored ==
    /\ path_delay_ms = ExpectedDelay(args, i)
    /\ UsagePrinted => HasStop(args)
    /\ \A c \in 1..Len(scan_calls) :
           scan_calls[c].args.path_delay = ExpectedDelay(args, Len(args))

C10_Witness ==
    /\ \E k \in ValidDelayPositions(args, Len(args)) :
           \E j \in DelayPositions(args, Len(args)) :
               j > k /\ DelayMeaning(args[j].val) = None
    /\ Len(scan_calls) = 1
    /\ scan_calls[1].args.path_delay = <<"7">>

====
